---- MODULE Spec2Model ----
(***************************************************************************)
(* The exchange-rate stage of pipe2py (modules/pipeexchangerate.py): the   *)
(* rate resolver calc_rate, the payload parser parse_request, the          *)
(* memoized fetchers and the blocking and the suspendable stage.           *)
(*                                                                         *)
(* Python floats are modelled as binary floating-point numbers with a      *)
(* MantBits-bit significand and round-to-nearest-even (the format of a     *)
(* double, with a shorter significand and no exponent limit).  A float is  *)
(* the pair <<n, d>> of the reduced fraction n/d it denotes.               *)
(***************************************************************************)
EXTENDS Integers, Sequences, FiniteSets, TLC

\* ------------------------------------------------------------------ bounds
\* Bits of a float's significand (53 in a double).
MantBits == 6
\* The longest input stream of one stage invocation.
MaxItems == 2
\* The clock stops here (time is counted in quarter days).
MaxNow == 2
\* Stage invocations in one behaviour of the cache.
MaxRuns == 3
\* The most resource records of a payload handed to parse_request.
MaxRecords == 2
\* The most feeds the auto-discovery of a site returns.
MaxFeeds == 2
\* Stage invocations and clock ticks in one behaviour of the stage.
StageRuns == 2
StageTicks == 1

\* ------------------------------------------------------------ float model
RECURSIVE Gcd(_, _)
Gcd(a, b) == IF b = 0 THEN a ELSE Gcd(b, a % b)

\* The reduced fraction n/d (n >= 0, d > 0).
Frac(n, d) == LET g == Gcd(n, d) IN <<n \div g, d \div g>>

RECURSIVE Pow2(_)
Pow2(k) == IF k = 0 THEN 1 ELSE 2 * Pow2(k - 1)

\* How often n/d must be doubled to reach 2^(MantBits-1), and halved to get
\* below 2^MantBits: the float's exponent.
RECURSIVE UpShift(_, _)
UpShift(n, d) == IF n < Pow2(MantBits - 1) * d THEN 1 + UpShift(2 * n, d) ELSE 0

RECURSIVE DownShift(_, _)
DownShift(n, d) == IF n >= Pow2(MantBits) * d THEN 1 + DownShift(n, 2 * d) ELSE 0

\* Round-half-even of the fraction n/d to an integer.
RoundHalfEven(n, d) ==
    LET q == n \div d
        r == n % d
    IN  IF 2 * r > d \/ (2 * r = d /\ q % 2 = 1) THEN q + 1 ELSE q

\* The float nearest to the rational n/d >= 0: every float operation and every
\* decimal literal of a payload is rounded this way.
Round(n, d) ==
    IF n = 0 THEN <<0, 1>>
    ELSE LET f  == Frac(n, d)
             ku == UpShift(f[1], f[2])
             kd == DownShift(f[1], f[2])
             m  == RoundHalfEven(f[1] * Pow2(ku), f[2] * Pow2(kd))
         IN  Frac(m * Pow2(kd), Pow2(ku))

\* float(1), the int 1 of line 67 and 73 converted at line 79
One == <<1, 1>>

FMul(a, b) == Round(a[1] * b[1], a[2] * b[2])
\* b is not zero
FDiv(a, b) == Round(a[1] * b[2], a[2] * b[1])
FIsZero(a) == a[1] = 0
\* a <= b as rationals
FLeq(a, b) == a[1] * b[2] <= b[1] * a[2]

\* |a - b| <= 8 * 2^(-MantBits) * b: a and b agree up to the rounding of a few
\* float operations (2^(-MantBits) is the relative error of one).
RelClose(a, b) ==
    LET x == a[1] * b[2]
        y == b[1] * a[2]
        diff == IF x >= y THEN x - y ELSE y - x
    IN  diff * Pow2(MantBits) <= 8 * y

\* ------------------------------------------------------------- rate tables
\* The pivot currency and the currencies of the model (FIELDS, lines 35-42).
Currencies == {"USD", "EUR", "GBP", "PLN"}

\* 'USD/%s' % cur (lines 70, 75, 76)
PairKey(cur) == "USD/" \o cur

\* The decimal literals of FIELDS (lines 36-41) as fractions.
Dec1      == <<1, 1>>
Dec08234  == <<8234, 10000>>
Dec06448  == <<6448, 10000>>
Dec376    == <<376, 100>>
Dec134    == <<134, 100>>

\* json.loads of a decimal literal: the nearest float.
ParseFloat(dec) == Round(dec[1], dec[2])

\* No value (a call that raised returns none).
Nothing == <<0, 0>>

\* The module-level logger: None until asyncPipeExchangerate binds it.
LoggerNone == "None"
LoggerSet  == "logger"

\* ---------------------------------------------------------------- calc_rate
Returned(v, looked, warned) ==
    [status |-> "ok", value |-> v, lookups |-> looked, warnings |-> warned]
Raised(exc, looked) ==
    [status |-> exc, value |-> Nothing, lookups |-> looked, warnings |-> <<>>]

\* line 79: return 1 / float(rate)
Invert(rate, looked, warned) ==
    IF FIsZero(rate) THEN Raised("ZeroDivisionError", looked)
    ELSE Returned(FDiv(One, rate), looked, warned)

\* The cross rate with the two currencies taken the wrong way round.
CrossRate_Swapped(from_cur, to_cur, rates) ==
    LET kf == PairKey(to_cur)
        kt == PairKey(from_cur)
    IN  IF kf \notin DOMAIN rates THEN Raised("KeyError", <<kf>>)
        ELSE IF kt \notin DOMAIN rates THEN Raised("KeyError", <<kf, kt>>)
        ELSE IF FIsZero(rates[kt]) THEN Raised("ZeroDivisionError", <<kf, kt>>)
        ELSE Invert(FMul(rates[kf], FDiv(One, rates[kt])), <<kf, kt>>, <<>>)

\* The cross rate with rates.get(key, 1) in place of rates[key].
CrossRate_Defaulting(from_cur, to_cur, rates) ==
    LET kf == PairKey(from_cur)
        kt == PairKey(to_cur)
        rf == IF kf \in DOMAIN rates THEN rates[kf] ELSE One
        rt == IF kt \in DOMAIN rates THEN rates[kt] ELSE One
    IN  IF FIsZero(rt) THEN Raised("ZeroDivisionError", <<kf, kt>>)
        ELSE Invert(FMul(rf, FDiv(One, rt)), <<kf, kt>>, <<>>)

\* lines 74-77: the cross rate through the USD pivot, no KeyError caught
CrossRate(from_cur, to_cur, rates) ==
    LET kf == PairKey(from_cur)
        kt == PairKey(to_cur)
    IN  IF kf \notin DOMAIN rates THEN Raised("KeyError", <<kf>>)
        ELSE IF kt \notin DOMAIN rates THEN Raised("KeyError", <<kf, kt>>)
        ELSE IF FIsZero(rates[kt]) THEN Raised("ZeroDivisionError", <<kf, kt>>)
        ELSE Invert(FMul(rates[kf], FDiv(One, rates[kt])), <<kf, kt>>, <<>>)

\* The USD branch taking the table's entry for the rate asked for: rate is
\* never inverted on the way out.
UsdRate_Uninverted(from_cur, rates, lg) ==
    LET kf == PairKey(from_cur)
    IN  IF kf \in DOMAIN rates THEN Returned(rates[kf], <<kf>>, <<>>)
        ELSE IF lg = LoggerNone THEN Raised("AttributeError", <<kf>>)
        ELSE Returned(One, <<kf>>, <<kf>>)

\* lines 68-73: to USD; a missing rate is logged and replaced by 1.  The
\* handler calls logger.warning: with the logger still None that call raises.
UsdRate(from_cur, rates, lg) ==
    LET kf == PairKey(from_cur)
    IN  IF kf \in DOMAIN rates THEN Invert(rates[kf], <<kf>>, <<>>)
        ELSE IF lg = LoggerNone THEN Raised("AttributeError", <<kf>>)
        ELSE Invert(One, <<kf>>, <<kf>>)

\* calc_rate without the branch of line 66.
calc_rate_NoSelfCase(from_cur, to_cur, rates, lg) ==
    IF to_cur = "USD" THEN UsdRate(from_cur, rates, lg)
    ELSE CrossRate(from_cur, to_cur, rates)

\* lines 65-79
calc_rate(from_cur, to_cur, rates, lg) ==
    IF from_cur = to_cur THEN Invert(One, <<>>, <<>>)
    ELSE IF to_cur = "USD" THEN UsdRate(from_cur, rates, lg)
    ELSE CrossRate(from_cur, to_cur, rates)

\* ----------------------------------------------------------------- payloads
\* One resource record of a payload (section 6 of the specification):
\* list.resources[].resource.fields.{name, price}.
Resource(name, price) ==
    [resource |-> [fields |-> [name |-> name, price |-> price]]]
Payload(resources) == [list |-> [resources |-> resources]]

\* The bundled snapshot data/quote.json (line 31): the sample rates FIELDS.
Dec63681 == <<636810, 10000>>
SnapshotBody ==
    Payload(<< Resource("USD/USD", Dec1), Resource("USD/EUR", Dec08234),
               Resource("USD/GBP", Dec06448), Resource("USD/INR", Dec63681),
               Resource("USD/PLN", Dec376), Resource("USD/SGD", Dec134) >>)

\* Bodies the remote rate service may answer with: today's rates, rates with
\* no EUR quote, a JSON object holding no list, and text that is no JSON.
Dec075 == <<75, 100>>
Dec05  == <<5, 10>>
Dec110 == <<110, 1>>
LiveBody ==
    Payload(<< Resource("USD/USD", Dec1), Resource("USD/EUR", Dec075),
               Resource("USD/GBP", Dec05), Resource("USD/JPY", Dec110) >>)
PartialBody == Payload(<< Resource("USD/USD", Dec1), Resource("USD/GBP", Dec05) >>)
NoListBody  == [error |-> "rate limited"]
NotJsonBody == [notjson |-> TRUE]

\* What a GET of EXCHANGE_API (lines 109, 162) ends in: an exception (refused,
\* timed out) or a response with a body; the tag names the outcome.
RemoteRaises == [raises |-> TRUE, tag |-> "raises", body |-> NotJsonBody]
Response(tag, body) == [raises |-> FALSE, tag |-> tag, body |-> body]
RemoteOutcomes ==
    { RemoteRaises, Response("live", LiveBody), Response("partial", PartialBody),
      Response("nolist", NoListBody), Response("notjson", NotJsonBody) }

\* A result: a value or the exception raised.
Ok(v)    == [status |-> "ok", value |-> v]
Err(exc) == [status |-> exc, value |-> [none |-> TRUE]]

\* json.loads (lines 102, 157), r.json() (line 163), treq.json_content (line
\* 110): text that is no JSON raises; decimal literals become floats.
LoadsResource(r) ==
    IF "resource" \in DOMAIN r /\ "fields" \in DOMAIN r.resource
       /\ "price" \in DOMAIN r.resource.fields
    THEN [r EXCEPT !.resource.fields.price = ParseFloat(@)]
    ELSE r
loads(body) ==
    IF "notjson" \in DOMAIN body THEN Err("ValueError")
    ELSE IF "list" \in DOMAIN body /\ "resources" \in DOMAIN body.list
    THEN Ok(Payload([i \in DOMAIN body.list.resources |->
                        LoadsResource(body.list.resources[i])]))
    ELSE Ok(body)

\* A Deferred that was not waited for (line 140).
DeferredObject == [deferred |-> TRUE]

\* A well-formed resource record: r['resource']['fields'] with name and price.
WellFormed(r) ==
    /\ "resource" \in DOMAIN r
    /\ "fields" \in DOMAIN r.resource
    /\ "name" \in DOMAIN r.resource.fields
    /\ "price" \in DOMAIN r.resource.fields

\* The last index of `resources` whose record is named `name`.
LastNamed(resources, name) ==
    CHOOSE i \in DOMAIN resources :
        /\ resources[i].resource.fields.name = name
        /\ \A j \in DOMAIN resources :
              resources[j].resource.fields.name = name => j <= i

\* lines 82-85: json['list']['resources'], then one entry per record; a later
\* record of the same name replaces an earlier one.  Subscripting a Deferred
\* raises TypeError, a missing key raises KeyError.
parse_request(json) ==
    IF "deferred" \in DOMAIN json THEN Err("TypeError")
    ELSE IF ~("list" \in DOMAIN json /\ "resources" \in DOMAIN json.list)
    THEN Err("KeyError")
    ELSE LET resources == json.list.resources
         IN  IF \E i \in DOMAIN resources : ~WellFormed(resources[i])
             THEN Err("KeyError")
             ELSE Ok([name \in {resources[i].resource.fields.name : i \in DOMAIN resources}
                        |-> resources[LastNamed(resources, name)].resource.fields.price])

\* ------------------------------------------------------------------- state
VARIABLES
    conf,        \* the stage configuration: quote, default, offline
    stream,      \* the input items of an invocation
    snapshotOK,  \* whether the bundled snapshot file can be read
    limits,      \* how far a behaviour goes: invocations, clock, suspendable slots
    now,         \* the clock, in quarter days
    logger,      \* the module global `logger` (line 32)
    cache,       \* the memoized functions' entries, by key
    inflight,    \* underlying fetches in flight, by key
    slots,       \* the stage invocations: one blocking, two suspendable
    runs,        \* stage invocations started
    event,       \* what the last step did: the call, its fetch, its diagnostics and I/O
    probe,       \* the arguments of a direct call of calc_rate
    probeOut     \* its result

vars == << conf, stream, snapshotOK, limits, now, logger, cache, inflight, slots,
           runs, event, probe, probeOut >>

\* ------------------------------------------------------- the memoizing cache
\* utils.HALF_DAY, the timeout of lines 94, 106, 150, 160: half a day, in
\* quarter days.
HALF_DAY == 2

CacheKeys == {"get_rate_data", "get_offline_rate_data",
              "asyncGetRateData", "asyncGetOfflineRateData"}
AsyncKeys == {"asyncGetRateData", "asyncGetOfflineRateData"}

NoEntry == [has |-> FALSE, value |-> [none |-> TRUE], fetchedAt |-> 0]
Entry(v, t) == [has |-> TRUE, value |-> v, fetchedAt |-> t]

\* An entry that never expires.
Live_NoExpiry(entry, t) == entry.has

\* A live entry: now - fetchedAt < ttl.
Live(entry, t) == entry.has /\ t - entry.fetchedAt < HALF_DAY

\* A cache that hands every failure of the fetch function to the caller.
Settle_NoStale(entry, t, fetched) ==
    IF fetched.status = "ok"
    THEN [result |-> Ok(fetched.value), entry |-> Entry(fetched.value, t)]
    ELSE [result |-> Err("FetchError"), entry |-> entry]

\* The cache after the fetch function ended in `fetched`: a value is stored
\* with the time; on a failure a stale entry is served and kept, and with no
\* entry FetchError is raised.
Settle(entry, t, fetched) ==
    IF fetched.status = "ok"
    THEN [result |-> Ok(fetched.value), entry |-> Entry(fetched.value, t)]
    ELSE IF entry.has
    THEN [result |-> Ok(entry.value), entry |-> entry]
    ELSE [result |-> Err("FetchError"), entry |-> entry]

\* utils.memoize around a blocking function: a live entry is returned with no
\* I/O, otherwise the function is called.
memoize(entry, t, fetched) ==
    IF Live(entry, t)
    THEN [result |-> Ok(entry.value), entry |-> entry, fetched |-> FALSE]
    ELSE LET m == Settle(entry, t, fetched)
         IN  [result |-> m.result, entry |-> m.entry, fetched |-> TRUE]

\* A memoize that starts a fetch of its own for every caller finding no live
\* entry.
asyncMemoize_NoJoin(entry, t, pending) ==
    IF entry.has /\ t - entry.fetchedAt < HALF_DAY THEN "hit" ELSE "start"

\* utils.memoize around a suspendable function: "hit" on a live entry, "join"
\* when a fetch for the key is in flight, "start" otherwise.
asyncMemoize(entry, t, pending) ==
    IF Live(entry, t) THEN "hit"
    ELSE IF pending > 0 THEN "join"
    ELSE "start"

\* ------------------------------------------------------------ fetch functions
\* Diagnostics logged (error, warning) and I/O done (the remote GET, the read
\* of the snapshot) by one step.
NoIO == [error |-> 0, warning |-> 0, remote |-> 0, snapshot |-> 0]

\* loads(urlopen(LOCAL_RATES_URL).read()) (lines 101-102, 157)
ReadSnapshot(snapOK) == IF snapOK THEN loads(SnapshotBody) ELSE Err("IOError")

\* A fetch that asks the remote service a second time when the GET raised.
get_rate_data_Retry(rem) ==
    [result |-> IF rem.raises THEN Err("ConnectionError") ELSE loads(rem.body),
     io     |-> [NoIO EXCEPT !.remote = IF rem.raises THEN 2 ELSE 1]]

\* lines 160-163: the GET and r.json(); nothing is caught
get_rate_data(rem) ==
    [result |-> IF rem.raises THEN Err("ConnectionError") ELSE loads(rem.body),
     io     |-> [NoIO EXCEPT !.remote = 1]]

\* lines 150-157: logger.error or logger.warning, then the snapshot.  With
\* the logger still None the logging call raises AttributeError.
get_offline_rate_data(err, lg, snapOK) ==
    IF lg = LoggerNone THEN [result |-> Err("AttributeError"), io |-> NoIO]
    ELSE [result |-> ReadSnapshot(snapOK),
          io     |-> [NoIO EXCEPT !.error = IF err THEN 1 ELSE 0,
                                  !.warning = IF err THEN 0 ELSE 1,
                                  !.snapshot = 1]]

\* lines 94-103: logger.error when err (the default), then the snapshot.  It
\* runs only after line 134 bound the logger.
asyncGetOfflineRateData(err, snapOK) ==
    [result |-> ReadSnapshot(snapOK),
     io     |-> [NoIO EXCEPT !.error = IF err THEN 1 ELSE 0, !.snapshot = 1]]

\* lines 106-111: addCallbacks(treq.json_content, asyncGetOfflineRateData):
\* the errback sees a failure of the GET only, never one of json_content.  The
\* errback is called with the Failure as its argument, so err is the default
\* True, and its memoize key holds that Failure: no later call has the key.
asyncGetRateData(rem, snapOK) ==
    IF rem.raises
    THEN [result |-> asyncGetOfflineRateData(TRUE, snapOK).result,
          io     |-> [asyncGetOfflineRateData(TRUE, snapOK).io EXCEPT !.remote = 1]]
    ELSE [result |-> loads(rem.body), io |-> [NoIO EXCEPT !.remote = 1]]

\* -------------------------------------------------------------------- stage
\* conf.get('offline', {}).get('value') as a condition (lines 135-137, 184-185):
\* None (no such key) and '' are false, any other string is true.
Truthy(v) == v \notin {"None", ""}

Str(s) == [kind |-> "str", s |-> s, f |-> Nothing]
Num(f) == [kind |-> "float", s |-> "", f |-> f]

\* get_split (lines 143, 187): the configured field of an item and its
\* pass-through flag; an item without the field is passed through.
get_split(item) ==
    IF item.has THEN [word |-> item.cur, pass |-> item.pass]
    ELSE [word |-> "", pass |-> TRUE]

\* utils.dispatch (lines 144, 188): one pair per item, in the items' order.
dispatch(items) == [i \in DOMAIN items |-> get_split(items[i])]

\* lines 88-90
parse_result(cf, word, pass, rates, lg) ==
    LET base == IF word = "" THEN cf.default ELSE word
    IN  IF pass
        THEN [status |-> "ok", out |-> Str(base), lookups |-> <<>>, warnings |-> <<>>]
        ELSE LET r == calc_rate(base, cf.quote, rates, lg)
             IN  [status |-> r.status, out |-> Num(r.value),
                  lookups |-> r.lookups, warnings |-> r.warnings]

NoRates == [k \in {} |-> Nothing]
\* An invocation: where it is, what it holds, whether its memoized function
\* had no entry when it was called (cold) and which answer of the remote
\* service its own fetch saw (saw).
IdleSlot ==
    [pc |-> "Idle", cold |-> FALSE, saw |-> "none", hasRates |-> FALSE, rates |-> NoRates,
     parsed |-> <<>>, out |-> <<>>, err |-> "", waits |-> ""]
FailedSlot(exc) == [IdleSlot EXCEPT !.pc = "Failed", !.err = exc]
Waiting(key) == [IdleSlot EXCEPT !.pc = "FetchingReference", !.waits = key]

\* A stage that splits and dispatches the items before it looks at rdata.
AfterFetch_DispatchFirst(rdata, items) ==
    IF rdata.status # "ok" THEN [FailedSlot(rdata.status) EXCEPT !.parsed = dispatch(items)]
    ELSE LET table == parse_request(rdata.value)
         IN  IF table.status # "ok"
             THEN [FailedSlot(table.status) EXCEPT !.parsed = dispatch(items)]
             ELSE [IdleSlot EXCEPT !.pc = "Transforming", !.hasRates = TRUE,
                                   !.rates = table.value, !.parsed = dispatch(items)]

\* lines 142-146 and 186-190 once rdata is there: the table, the split, the
\* dispatch; the output is a lazy starmap, nothing is transformed yet.
AfterFetch(rdata, items) ==
    IF rdata.status # "ok" THEN FailedSlot(rdata.status)
    ELSE LET table == parse_request(rdata.value)
         IN  IF table.status # "ok" THEN FailedSlot(table.status)
             ELSE [IdleSlot EXCEPT !.pc = "Transforming", !.hasRates = TRUE,
                                   !.rates = table.value, !.parsed = dispatch(items)]

SlotIds  == {"sync", "a1", "a2"}
AsyncIds == {"a1", "a2"}
Restartable == {"Idle", "Done", "Failed"}

\* A step: the operation, the slot and the memoize key it is about, whether
\* the underlying fetch function was invoked (fetched), and its diagnostics
\* and I/O.
NoEvent ==
    [op |-> "none", slot |-> "", key |-> "", fetched |-> FALSE, saw |-> "none", io |-> NoIO]

\* lines 166-190: the blocking stage up to the return of the lazy output
pipe_exchangerate ==
    \E remote \in RemoteOutcomes :
    /\ runs < limits.runs
    /\ slots["sync"].pc \in Restartable
    /\ LET offline == Truthy(conf.offline)
           key  == IF offline THEN "get_offline_rate_data" ELSE "get_rate_data"
           body == IF offline THEN get_offline_rate_data(FALSE, logger, snapshotOK)
                   ELSE get_rate_data(remote)
           m    == memoize(cache[key], now, body.result)
       IN  /\ cache' = [cache EXCEPT ![key] = m.entry]
           /\ event' = [op |-> "call", slot |-> "sync", key |-> key, fetched |-> m.fetched,
                        saw |-> IF m.fetched /\ ~offline THEN remote.tag ELSE "none",
                        io |-> IF m.fetched THEN body.io ELSE NoIO]
           /\ slots' = [slots EXCEPT !["sync"] =
                          [AfterFetch(m.result, stream)
                             EXCEPT !.cold = ~cache[key].has,
                                    !.saw = IF m.fetched /\ ~offline
                                            THEN remote.tag ELSE "none"]]
    /\ runs' = runs + 1
    /\ UNCHANGED <<conf, stream, snapshotOK, limits, now, logger, inflight, probe, probeOut>>

\* lines 114-146 up to the first suspension: line 138 waits for the Deferred
\* of asyncGetOfflineRateData, line 140 does not wait for the one of
\* asyncGetRateData and hands the Deferred itself to parse_request.
asyncPipeExchangerate(a) ==
    /\ runs < limits.runs
    /\ a \in limits.asyncs
    /\ slots[a].pc \in Restartable
    /\ logger' = LoggerSet
    /\ LET offline == Truthy(conf.offline)
           key  == IF offline THEN "asyncGetOfflineRateData" ELSE "asyncGetRateData"
           how  == asyncMemoize(cache[key], now, inflight[key])
       IN  /\ event' = [op |-> "call", slot |-> a, key |-> key, fetched |-> how = "start",
                        saw |-> "none", io |-> NoIO]
           /\ inflight' = IF how = "start" THEN [inflight EXCEPT ![key] = @ + 1]
                          ELSE inflight
           /\ slots' = [slots EXCEPT ![a] =
                          [ IF ~offline THEN AfterFetch(Ok(DeferredObject), stream)
                            ELSE IF how = "hit" THEN AfterFetch(Ok(cache[key].value), stream)
                            ELSE Waiting(key)
                            EXCEPT !.cold = ~cache[key].has ]]
    /\ runs' = runs + 1
    /\ UNCHANGED <<conf, stream, snapshotOK, limits, now, cache, probe, probeOut>>

\* A fetch in flight ends: the Deferred of a memoized suspendable function
\* fires, the cache settles and every invocation waiting for it goes on.
FetchDone(key) ==
    \E remote \in RemoteOutcomes :
    /\ inflight[key] > 0
    /\ LET body == IF key = "asyncGetRateData" THEN asyncGetRateData(remote, snapshotOK)
                   ELSE asyncGetOfflineRateData(FALSE, snapshotOK)
           m    == Settle(cache[key], now, body.result)
       IN  /\ cache' = [cache EXCEPT ![key] = m.entry]
           /\ event' = [op |-> "done", slot |-> "", key |-> key, fetched |-> FALSE,
                        saw |-> IF key = "asyncGetRateData" THEN remote.tag ELSE "none",
                        io |-> body.io]
           /\ slots' = [s \in SlotIds |->
                          IF slots[s].pc = "FetchingReference" /\ slots[s].waits = key
                          THEN [AfterFetch(m.result, stream) EXCEPT !.cold = slots[s].cold]
                          ELSE slots[s]]
    /\ inflight' = [inflight EXCEPT ![key] = @ - 1]
    /\ UNCHANGED <<conf, stream, snapshotOK, limits, now, logger, runs, probe, probeOut>>

\* An output that hands the newest element out first.
Emit_Front(out, v) == <<v>> \o out

\* itertools.starmap (lines 145, 189): the elements come out in the order of
\* the pairs.
Emit(out, v) == Append(out, v)

\* The consumer takes the next element of the lazy output (lines 145, 189):
\* parse_result runs on the next pair, with the logger as it is now.
Consume(s) ==
    /\ slots[s].pc = "Transforming"
    /\ LET sl == slots[s]
           k  == Len(sl.out) + 1
           r  == parse_result(conf, sl.parsed[k].word, sl.parsed[k].pass, sl.rates, logger)
       IN  /\ slots' = [slots EXCEPT ![s] =
                          IF r.status # "ok"
                          THEN [sl EXCEPT !.pc = "Failed", !.err = r.status]
                          ELSE [sl EXCEPT !.out = Emit(@, r.out),
                                          !.pc = IF k = Len(sl.parsed) THEN "Done" ELSE @]]
           /\ event' = [op |-> "consume", slot |-> s, key |-> "", fetched |-> FALSE,
                        saw |-> "none", io |-> [NoIO EXCEPT !.warning = Len(r.warnings)]]
    /\ UNCHANGED <<conf, stream, snapshotOK, limits, now, logger, cache, inflight, runs,
                   probe, probeOut>>

\* A quarter day passes.
Tick ==
    /\ now < limits.now
    /\ now' = now + 1
    /\ event' = [NoEvent EXCEPT !.op = "tick"]
    /\ UNCHANGED <<conf, stream, snapshotOK, limits, logger, cache, inflight, slots, runs,
                   probe, probeOut>>

\* ------------------------------------------------------------ initial states
\* conf: 'quote', 'default' and the raw 'offline' value (lines 123-127).
Confs == [quote : {"USD", "GBP", "JPY"}, default : {"USD"}, offline : {"None", "0", "1"}]

\* Items: the currency field (has: whether the item holds it) and the flag.
Items ==
    { [has |-> TRUE,  cur |-> "JPY", pass |-> FALSE],
      [has |-> TRUE,  cur |-> "",    pass |-> FALSE],
      [has |-> TRUE,  cur |-> "GBP", pass |-> TRUE],
      [has |-> FALSE, cur |-> "",    pass |-> FALSE] }
Streams == UNION {[1..n -> Items] : n \in 1..MaxItems}

NoProbe == [from_cur |-> "", to_cur |-> "", rates |-> NoRates, logger |-> LoggerNone]
Pending == Raised("pending", <<>>)

StageInit ==
    /\ now = 0
    /\ logger = LoggerNone
    /\ cache = [k \in CacheKeys |-> NoEntry]
    /\ inflight = [k \in AsyncKeys |-> 0]
    /\ slots = [s \in SlotIds |-> IdleSlot]
    /\ runs = 0
    /\ event = NoEvent

\* The stage: every configuration and stream, one blocking and one
\* suspendable invocation slot.
Init ==
    /\ conf \in Confs
    /\ stream \in Streams
    /\ snapshotOK \in BOOLEAN
    /\ limits = [runs |-> StageRuns, now |-> StageTicks, asyncs |-> {"a1"}]
    /\ StageInit
    /\ probe = NoProbe
    /\ probeOut = Pending

\* The cache: one stream of one passed-through item, more invocations, a
\* longer clock and both suspendable slots.
CacheInit ==
    /\ conf \in [quote : {"USD"}, default : {"USD"}, offline : {"None", "1"}]
    /\ stream = <<[has |-> TRUE, cur |-> "GBP", pass |-> TRUE]>>
    /\ snapshotOK \in BOOLEAN
    /\ limits = [runs |-> MaxRuns, now |-> MaxNow, asyncs |-> AsyncIds]
    /\ StageInit
    /\ probe = NoProbe
    /\ probeOut = Pending

\* ------------------------------------------------- calc_rate called directly
\* Rate tables: any of the pairs USD/<currency>, USD/USD at 1 (the data
\* model's invariant), the others at a positive price.
Prices == {ParseFloat(d) : d \in {Dec08234, Dec06448, Dec376, Dec134}}
Tables ==
    { t \in UNION {[D -> Prices \cup {One}] : D \in SUBSET {PairKey(c) : c \in Currencies}} :
        \A k \in DOMAIN t : (k = PairKey("USD")) <=> (t[k] = One) }
Probes == [from_cur : Currencies, to_cur : Currencies, rates : Tables,
           logger : {LoggerNone, LoggerSet}]

RateInit ==
    /\ probe \in Probes
    /\ probeOut = Pending
    /\ conf = [quote |-> "USD", default |-> "USD", offline |-> "None"]
    /\ stream = <<[has |-> TRUE, cur |-> "GBP", pass |-> TRUE]>>
    /\ snapshotOK = TRUE
    /\ limits = [runs |-> 0, now |-> 0, asyncs |-> {}]
    /\ StageInit

CalcRate ==
    /\ probeOut = Pending
    /\ probeOut' = calc_rate(probe.from_cur, probe.to_cur, probe.rates, probe.logger)
    /\ UNCHANGED <<conf, stream, snapshotOK, limits, now, logger, cache, inflight, slots,
                   runs, event, probe>>

RateNext == CalcRate

\* ----------------------------------------------- parse_result called directly
\* babel's format_currency (pipecurrencyformat.py line 29): the text of the
\* number in the currency, never the number itself; what is no number raises.
format_currency(num, currency) ==
    IF num.kind = "float"
    THEN [status |-> "ok", out |-> [kind |-> "str", s |-> currency, f |-> num.f]]
    ELSE [status |-> "InvalidOperation", out |-> Str("")]

\* pipecurrencyformat.py lines 28-29
currencyformat_parse_result(cf, num, pass) ==
    IF pass THEN [status |-> "ok", out |-> num, formatted |-> FALSE]
    ELSE [status |-> format_currency(num, cf.currency).status,
          out |-> format_currency(num, cf.currency).out, formatted |-> TRUE]

\* The values handed to the two transforms: currency codes and the empty
\* word, numbers and the empty value.
Words == {"", "USD", "GBP", "JPY"}
Nums == {Num(One), Num(ParseFloat(Dec376)), Num(ParseFloat(Dec08234)), Str("")}
ResultTables ==
    { parse_request(loads(b).value).value : b \in {SnapshotBody, LiveBody, PartialBody} }
ResultProbes ==
    [stage : {"exchangerate"}, conf : Confs, word : Words, pass : BOOLEAN,
     rates : ResultTables, logger : {LoggerNone, LoggerSet}]
    \cup
    [stage : {"currencyformat"}, conf : [currency : {"USD", "GBP"}], word : Nums,
     pass : BOOLEAN, rates : {NoRates}, logger : {LoggerNone}]

ResultInit ==
    /\ probe \in ResultProbes
    /\ probeOut = Pending
    /\ conf = [quote |-> "USD", default |-> "USD", offline |-> "None"]
    /\ stream = <<[has |-> TRUE, cur |-> "GBP", pass |-> TRUE]>>
    /\ snapshotOK = TRUE
    /\ limits = [runs |-> 0, now |-> 0, asyncs |-> {}]
    /\ StageInit

\* parse_result of pipeexchangerate.py on one pair
ParseResult ==
    /\ probeOut = Pending /\ probe.stage = "exchangerate"
    /\ probeOut' = parse_result(probe.conf, probe.word, probe.pass, probe.rates, probe.logger)
    /\ UNCHANGED <<conf, stream, snapshotOK, limits, now, logger, cache, inflight, slots,
                   runs, event, probe>>

\* parse_result of pipecurrencyformat.py on one pair
FormatResult ==
    /\ probeOut = Pending /\ probe.stage = "currencyformat"
    /\ probeOut' = currencyformat_parse_result(probe.conf, probe.word, probe.pass)
    /\ UNCHANGED <<conf, stream, snapshotOK, limits, now, logger, cache, inflight, slots,
                   runs, event, probe>>

ResultNext == ParseResult \/ FormatResult

\* --------------------------------------------- parse_request called directly
\* Resource records as json.loads hands them over: well-formed ones (two of
\* them with the same name) and ones lacking price, name, fields or resource.
Records ==
    { Resource("USD/USD", One),
      Resource("USD/EUR", ParseFloat(Dec08234)),
      Resource("USD/EUR", ParseFloat(Dec075)),
      [resource |-> [fields |-> [name |-> "USD/GBP"]]],
      [resource |-> [fields |-> [price |-> ParseFloat(Dec06448)]]],
      [resource |-> [id |-> "USD/GBP"]],
      [meta |-> "quote"] }
Payloads == { Payload(rs) : rs \in UNION {[1..n -> Records] : n \in 0..MaxRecords} }

ParseInit ==
    /\ probe \in [json : Payloads \cup {NoListBody}]
    /\ probeOut = Pending
    /\ conf = [quote |-> "USD", default |-> "USD", offline |-> "None"]
    /\ stream = <<[has |-> TRUE, cur |-> "GBP", pass |-> TRUE]>>
    /\ snapshotOK = TRUE
    /\ limits = [runs |-> 0, now |-> 0, asyncs |-> {}]
    /\ StageInit

\* parse_request on one payload (lines 142, 186)
ParseRequest ==
    /\ probeOut = Pending
    /\ probeOut' = parse_request(probe.json)
    /\ UNCHANGED <<conf, stream, snapshotOK, limits, now, logger, cache, inflight, slots,
                   runs, event, probe>>

ParseNext == ParseRequest

\* ------------------------------------------------ the fetch-site-feed stage
\* riko/modules/fetchsitefeed.py.  A site is the list of feeds its
\* auto-discovery returns, in discovery order; a feed is named by its link.
Links == {"feedA", "feedB", "feedC"}
Sites == UNION {[1..n -> [link : Links]] : n \in 0..MaxFeeds}

\* autorss.get_rss / autorss.asyncGetRSS (lines 90, 128): the discovered feeds
get_rss(site) == site

\* utils.parse_rss (lines 93, 130): the parsed feed behind a link
parse_rss(link) == [feed |-> link, entries |-> <<[title |-> link, n |-> 1], [title |-> link, n |-> 2]>>]

\* utils.gen_entries (lines 94, 131)
gen_entries(parsed) == parsed.entries

\* The feed of a site that no stage should pick when there are several.
LastLink(rss) == rss[Len(rss)].link

\* next(rss)['link'] (lines 91, 129): the first discovered feed
FirstLink(rss) == Head(rss).link

\* What an invocation of a parser has done and returned: the pair
\* (stream, skip), the discoveries made, the links read and the feeds parsed.
FeedResult(pc, result, skip, discovered, reads, parses) ==
    [status |-> pc, stream |-> result, skip |-> skip, discovered |-> discovered,
     reads |-> reads, parses |-> parses]
NoStream == <<>>

\* A parser that ignores skip.
parser_NoSkip(p) ==
    LET rss == get_rss(p.site)
    IN  IF rss = <<>> THEN FeedResult("StopIteration", NoStream, p.skip, 1, <<>>, 0)
        ELSE LET link == FirstLink(rss)
             IN  FeedResult("Done", gen_entries(parse_rss(link)), p.skip, 1, <<link>>, 1)

\* lines 100-133: parser; utils.parse_rss(link) reads the link itself
parser(p) ==
    IF p.skip THEN FeedResult("Done", p.item, p.skip, 0, <<>>, 0)
    ELSE LET rss == get_rss(p.site)
         IN  IF rss = <<>> THEN FeedResult("StopIteration", NoStream, p.skip, 1, <<>>, 0)
             ELSE LET link == FirstLink(rss)
                  IN  FeedResult("Done", gen_entries(parse_rss(link)), p.skip, 1, <<link>>, 1)

\* lines 86-90: async_parser up to its first suspension
async_parser(p) ==
    IF p.skip THEN FeedResult("Done", p.item, p.skip, 0, <<>>, 0)
    ELSE FeedResult("asyncGetRSS", NoStream, p.skip, 1, <<>>, 0)

FeedItems == {[title |-> "item"], [url |-> "site"]}
FeedProbes == [fn : {"parser", "async_parser"}, skip : BOOLEAN, item : FeedItems, site : Sites]

FeedInit ==
    /\ probe \in FeedProbes
    /\ probeOut = Pending
    /\ conf = [quote |-> "USD", default |-> "USD", offline |-> "None"]
    /\ stream = <<[has |-> TRUE, cur |-> "GBP", pass |-> TRUE]>>
    /\ snapshotOK = TRUE
    /\ limits = [runs |-> 0, now |-> 0, asyncs |-> {}]
    /\ StageInit

FeedFrame ==
    UNCHANGED <<conf, stream, snapshotOK, limits, now, logger, cache, inflight, slots,
                runs, event, probe>>

\* pipe (line 195) calls parser
Parser ==
    /\ probeOut = Pending /\ probe.fn = "parser"
    /\ probeOut' = parser(probe)
    /\ FeedFrame

\* async_pipe (line 170) calls async_parser
AsyncParser ==
    /\ probeOut = Pending /\ probe.fn = "async_parser"
    /\ probeOut' = async_parser(probe)
    /\ FeedFrame

\* lines 90-92: the discovery answers; the first link is taken and its read
\* is started
GotRSS ==
    /\ probeOut.status = "asyncGetRSS"
    /\ LET rss == get_rss(probe.site)
       IN  probeOut' =
             IF rss = <<>> THEN [probeOut EXCEPT !.status = "StopIteration"]
             ELSE [probeOut EXCEPT !.status = "async_url_read", !.reads = <<FirstLink(rss)>>]
    /\ FeedFrame

\* lines 92-97: the content is there; it is parsed and the entries returned
GotContent ==
    /\ probeOut.status = "async_url_read"
    /\ probeOut' = [probeOut EXCEPT !.status = "Done", !.parses = 1,
                                    !.stream = gen_entries(parse_rss(probeOut.reads[1]))]
    /\ FeedFrame

FeedNext == Parser \/ AsyncParser \/ GotRSS \/ GotContent

Next ==
    \/ pipe_exchangerate
    \/ \E a \in AsyncIds : asyncPipeExchangerate(a)
    \/ \E key \in AsyncKeys : FetchDone(key)
    \/ \E s \in SlotIds : Consume(s)
    \/ Tick

Spec == Init /\ [][Next]_vars
CacheSpec == CacheInit /\ [][Next]_vars
RateSpec == RateInit /\ [][RateNext]_vars
ResultSpec == ResultInit /\ [][ResultNext]_vars
ParseSpec == ParseInit /\ [][ParseNext]_vars
FeedSpec == FeedInit /\ [][FeedNext]_vars

\* -------------------------------------------------------------- properties
Called == probeOut # Pending
Reverse == calc_rate(probe.to_cur, probe.from_cur, probe.rates, probe.logger)

\* C6: calc_rate(c, c, table) returns 1.0 for every currency c and every
\* table, also one with no entry for c, and looks nothing up.
C6_SelfRateIsOne ==
    (Called /\ probe.from_cur = probe.to_cur)
        => /\ probeOut.status = "ok"
           /\ probeOut.value = One
           /\ probeOut.lookups = <<>>

\* calc_rate(c, c, table) was called with a table holding no rate for c.
C6_Witness ==
    /\ Called
    /\ probe.from_cur = probe.to_cur
    /\ PairKey(probe.from_cur) \notin DOMAIN probe.rates
    /\ probeOut.value = One

\* Both directions of a pair are computed through the pivot: both calls
\* return, and neither replaced a missing rate by 1.
BothDirections ==
    /\ Called
    /\ probeOut.status = "ok" /\ probeOut.warnings = <<>>
    /\ Reverse.status = "ok" /\ Reverse.warnings = <<>>

\* C7, exactly: calc_rate(f, t, table) equals 1 / calc_rate(t, f, table)
\* whenever both directions are computable through the pivot.
C7_ExactInverse ==
    BothDirections => probeOut.value = FDiv(One, Reverse.value)

\* C7, up to rounding: calc_rate(f, t, table) and 1 / calc_rate(t, f, table)
\* agree up to the rounding of the float operations.
C7_InverseUpToRounding ==
    BothDirections => RelClose(probeOut.value, FDiv(One, Reverse.value))

\* A cross rate whose two directions are not inverse bit for bit.
C7_Witness ==
    /\ BothDirections
    /\ probe.from_cur # "USD" /\ probe.to_cur # "USD"
    /\ probeOut.value # FDiv(One, Reverse.value)

\* C8: in the cross-rate branch with both pivot entries present calc_rate
\* returns 1 / (table[USD/from] * (1 / table[USD/to])), which is
\* table[USD/to] / table[USD/from] up to rounding: units of `to` per unit
\* of `from`.
CrossCase ==
    /\ Called
    /\ probe.from_cur # probe.to_cur /\ probe.to_cur # "USD"
    /\ PairKey(probe.from_cur) \in DOMAIN probe.rates
    /\ PairKey(probe.to_cur) \in DOMAIN probe.rates

C8_CrossRate ==
    CrossCase =>
        LET given == probe.rates[PairKey(probe.from_cur)]
            quote == probe.rates[PairKey(probe.to_cur)]
        IN  /\ probeOut.status = "ok"
            /\ probeOut.value = FDiv(One, FMul(given, FDiv(One, quote)))
            /\ RelClose(probeOut.value, FDiv(quote, given))

\* EUR to GBP with the sample rates: 0.6448 / 0.8234.
C8_Witness ==
    /\ CrossCase
    /\ probe.from_cur = "EUR" /\ probe.to_cur = "GBP"
    /\ probe.rates[PairKey("EUR")] = ParseFloat(Dec08234)
    /\ probe.rates[PairKey("GBP")] = ParseFloat(Dec06448)
    /\ probeOut.value = FDiv(ParseFloat(Dec06448), ParseFloat(Dec08234))

\* The table of the bundled snapshot.
SnapshotTable == parse_request(loads(SnapshotBody).value).value

Final == {"Done", "Failed"}

\* C1: the blocking and the suspendable stage, given the same stream, the
\* same configuration and the same external data (each called with nothing
\* memoized yet), end alike: both fail or both produce the same output.
C1_SameOutput ==
    LET b == slots["sync"]
        a == slots["a1"]
    IN  (b.pc \in Final /\ a.pc \in Final /\ b.cold /\ a.cold)
            => (b.pc = a.pc /\ b.out = a.out)

\* Answers of the remote service that are no rate table.
BadAnswers == {"raises", "notjson", "nolist"}

\* C2: an invocation whose remote fetch raised or brought no table goes on
\* with the table of the bundled snapshot (the snapshot being readable).
C2_FallbackToSnapshot ==
    \A s \in SlotIds :
        (slots[s].saw \in BadAnswers /\ snapshotOK)
            => (slots[s].hasRates /\ slots[s].rates = SnapshotTable)

\* The pair k of an invocation was handed to parse_result: its output is
\* there, or the invocation failed on it.
Attempted(sl, k) ==
    /\ sl.hasRates
    /\ k \in 1..Len(sl.parsed)
    /\ k <= Len(sl.out) \/ (sl.pc = "Failed" /\ k = Len(sl.out) + 1)
Base(sl, k) == IF sl.parsed[k].word = "" THEN conf.default ELSE sl.parsed[k].word

\* Pair k is converted to USD and the table has no rate for its currency.
UsdMissing(sl, k) ==
    /\ ~sl.parsed[k].pass
    /\ conf.quote = "USD" /\ Base(sl, k) # "USD"
    /\ PairKey(Base(sl, k)) \notin DOMAIN sl.rates

\* C9: a conversion to USD of a currency the table has no rate for does not
\* fail: a warning is logged, the output is 1.0 and the stage goes on.
C9_MissingUsdRateIsOne ==
    \A s \in SlotIds : \A k \in 1..Len(slots[s].parsed) :
        (Attempted(slots[s], k) /\ UsdMissing(slots[s], k))
            => /\ k <= Len(slots[s].out)
               /\ slots[s].out[k] = Num(One)
               /\ (event.op = "consume" /\ event.slot = s /\ k = Len(slots[s].out))
                      => event.io.warning = 1

\* Pair k takes the cross-rate branch and a pivot entry is missing.
CrossMissing(sl, k) ==
    /\ ~sl.parsed[k].pass
    /\ conf.quote # "USD" /\ Base(sl, k) # conf.quote
    /\ \/ PairKey(Base(sl, k)) \notin DOMAIN sl.rates
       \/ PairKey(conf.quote) \notin DOMAIN sl.rates

\* C10: in the cross-rate branch a missing USD/from or USD/to entry raises
\* KeyError; nothing is substituted and no output is produced for the item,
\* the invocation fails on it.
C10_CrossLookupFails ==
    \A s \in SlotIds : \A k \in 1..Len(slots[s].parsed) :
        (Attempted(slots[s], k) /\ CrossMissing(slots[s], k))
            => /\ slots[s].pc = "Failed"
               /\ slots[s].err = "KeyError"
               /\ Len(slots[s].out) = k - 1

\* An invocation failed with KeyError on a pair of the cross-rate branch.
C10_Witness ==
    \E s \in SlotIds : \E k \in 1..Len(slots[s].parsed) :
        /\ Attempted(slots[s], k) /\ CrossMissing(slots[s], k)
        /\ k = 2
        /\ PairKey(conf.quote) \notin DOMAIN slots[s].rates
        /\ slots[s].err = "KeyError"

\* C3: a call of a memoized function within HALF_DAY of the successful fetch
\* whose value it holds invokes no fetch (the two calls of a window share
\* one), and a call after the window invokes the fetch again.
C3_OneFetchPerWindow ==
    [][ event'.op = "call" =>
          LET k == event'.key
              e == cache[k]
          IN  /\ (e.has /\ now - e.fetchedAt < HALF_DAY) => ~event'.fetched
              /\ (e.has /\ now - e.fetchedAt >= HALF_DAY
                    /\ (k \in AsyncKeys => inflight[k] = 0)) => event'.fetched ]_vars

\* A call after the window fetched again, and the fetch brought a new entry.
C3_Witness ==
    /\ event.op = "call" /\ event.fetched
    /\ ~slots[event.slot].cold
    /\ cache[event.key].has /\ cache[event.key].fetchedAt = now
    /\ now >= HALF_DAY

\* The underlying fetch of a step failed: the GET raised or its body was no
\* JSON; for the suspendable fetcher a GET that raised falls back to the
\* snapshot, which fails when the snapshot cannot be read.
FetchFailed(e) ==
    \/ e.key = "get_rate_data" /\ e.saw \in {"raises", "notjson"}
    \/ e.key = "get_offline_rate_data" /\ (logger = LoggerNone \/ ~snapshotOK)
    \/ e.key = "asyncGetRateData" /\ (e.saw = "notjson" \/ (e.saw = "raises" /\ ~snapshotOK))
    \/ e.key = "asyncGetOfflineRateData" /\ ~snapshotOK

\* An invocation going on with the memoized value v.
ServedWith(sl, v) == sl = [AfterFetch(Ok(v), stream) EXCEPT !.cold = sl.cold, !.saw = sl.saw]

\* C4: when a fetch fails and the key holds an earlier value, the callers get
\* that value and the entry stays as it was; FetchError is raised only to a
\* caller whose key never held a value.
C4_ServeStaleOnError ==
    [][ /\ (event'.op = "call" /\ event'.slot = "sync" /\ event'.fetched
              /\ FetchFailed(event') /\ cache[event'.key].has)
           => /\ cache'[event'.key] = cache[event'.key]
              /\ ServedWith(slots'["sync"], cache[event'.key].value)
        /\ (event'.op = "done" /\ FetchFailed(event') /\ cache[event'.key].has)
           => /\ cache'[event'.key] = cache[event'.key]
              /\ \A s \in AsyncIds :
                   (slots[s].pc = "FetchingReference" /\ slots[s].waits = event'.key)
                      => ServedWith(slots'[s], cache[event'.key].value)
        /\ \A s \in SlotIds : slots'[s].err = "FetchError" => slots'[s].cold ]_vars

\* The blocking stage refetched after the window, the GET raised, and the
\* stage went on with the earlier value.
C4_Witness ==
    /\ event.op = "call" /\ event.slot = "sync" /\ event.fetched
    /\ event.saw = "raises"
    /\ ~slots["sync"].cold
    /\ slots["sync"].pc = "Transforming"
    /\ cache["get_rate_data"].fetchedAt < now

EmptyAnswers == {"nolist"}

\* C11: a step that falls back from the remote service to the snapshot logs
\* an error when the GET raised and a warning when the answer was empty, and
\* a fetch step logs an error only after a GET that raised and a warning only
\* after an empty answer.
C11_DiagnosticNamesCause ==
    event.op \in {"call", "done"} =>
        /\ (event.io.remote = 1 /\ event.io.snapshot = 1)
              => IF event.saw = "raises"
                 THEN event.io.error = 1 /\ event.io.warning = 0
                 ELSE event.io.error = 0 /\ event.io.warning = 1
        /\ event.io.error = 1 => event.saw = "raises"
        /\ event.io.warning = 1 => event.saw \in EmptyAnswers

\* C12: the pairs of an invocation are those of the input items, in their
\* order; the k-th output is the transform of the k-th pair, there is never
\* more than one output per pair, and a finished invocation has one for each.
C12_OneOutputPerPairInOrder ==
    \A s \in SlotIds :
        LET sl == slots[s]
        IN  sl.hasRates =>
              /\ Len(sl.parsed) = Len(stream)
              /\ \A k \in 1..Len(stream) : sl.parsed[k] = get_split(stream[k])
              /\ Len(sl.out) <= Len(sl.parsed)
              /\ \A k \in 1..Len(sl.out) :
                    sl.out[k] = parse_result(conf, sl.parsed[k].word, sl.parsed[k].pass,
                                             sl.rates, LoggerSet).out
              /\ sl.pc = "Done" => Len(sl.out) = Len(sl.parsed)

\* An invocation finished with two different outputs for its two items.
C12_Witness ==
    \E s \in SlotIds :
        /\ slots[s].pc = "Done"
        /\ Len(slots[s].out) = 2
        /\ slots[s].out[1] # slots[s].out[2]
        /\ slots[s].out[1].kind = "float"

\* The value a transform received, as the stage hands values on.
Received == IF probe.stage = "exchangerate" THEN Str(probe.word) ELSE probe.word

\* C13: with the pass-through flag set parse_result of either stage returns
\* the value exactly as it received it, the empty one included, and looks up
\* no rate and formats nothing; with the flag unset it returns the conversion
\* of the value (the rate of the word's currency, the formatted number).
C13_PassThroughForwardsValue ==
    Called =>
        IF probe.pass
        THEN /\ probeOut.status = "ok"
             /\ probeOut.out = Received
             /\ probe.stage = "exchangerate" => probeOut.lookups = <<>>
             /\ probe.stage = "currencyformat" => ~probeOut.formatted
        ELSE probeOut.status = "ok" =>
               /\ probeOut.out # Received
               /\ probe.stage = "exchangerate" => probeOut.out.kind = "float"
               /\ probe.stage = "currencyformat" => probeOut.formatted

\* The well-formed records of the payload handed to parse_request.
GoodRecords ==
    { i \in DOMAIN probe.json.list.resources : WellFormed(probe.json.list.resources[i]) }

\* C14: parse_request on a payload with a list of records succeeds; the table
\* holds name -> price for every well-formed record (the last record of a
\* name counts) and nothing else: a malformed record is skipped.
C14_MalformedRecordsSkipped ==
    (Called /\ "list" \in DOMAIN probe.json) =>
        LET rs == probe.json.list.resources
        IN  /\ probeOut.status = "ok"
            /\ DOMAIN probeOut.value = { rs[i].resource.fields.name : i \in GoodRecords }
            /\ \A i \in GoodRecords :
                  (\A j \in GoodRecords :
                      rs[j].resource.fields.name = rs[i].resource.fields.name => j <= i)
                  => probeOut.value[rs[i].resource.fields.name] = rs[i].resource.fields.price

\* C15: when the discovery of a site returns several feeds, parser and
\* async_parser read one link at most, the first in discovery order, parse
\* one feed, and return the entries of that feed.
C15_FirstFeedOnly ==
    (Called /\ ~probe.skip /\ Len(probe.site) >= 2) =>
        /\ probeOut.reads \in {<<>>, <<probe.site[1].link>>}
        /\ probeOut.parses <= 1 /\ probeOut.discovered = 1
        /\ probeOut.status \in {"Done", "asyncGetRSS", "async_url_read"}
        /\ probeOut.status = "Done" =>
              /\ probeOut.reads = <<probe.site[1].link>>
              /\ probeOut.parses = 1
              /\ probeOut.stream = gen_entries(parse_rss(probe.site[1].link))

\* async_parser returned the entries of the first of two different feeds.
C15_Witness ==
    /\ probe.fn = "async_parser" /\ ~probe.skip
    /\ Len(probe.site) = 2 /\ probe.site[1].link # probe.site[2].link
    /\ probeOut.status = "Done"
    /\ probeOut.stream[1].title = probe.site[1].link

\* C20: with skip true parser and async_parser return the original item and
\* True, and do no discovery, no read and no parsing; with skip false what
\* they return is the fetched entries and False.
C20_SkipReturnsItem ==
    Called =>
        IF probe.skip
        THEN probeOut = FeedResult("Done", probe.item, TRUE, 0, <<>>, 0)
        ELSE probeOut.status = "Done" =>
               /\ probeOut.skip = FALSE
               /\ probeOut.discovered = 1
               /\ probeOut.stream = gen_entries(parse_rss(probeOut.reads[1]))

\* parser was called with skip true on a site that has feeds.
C20_Witness ==
    /\ Called /\ probe.skip /\ probe.fn = "parser"
    /\ Len(probe.site) = 2
    /\ probeOut.stream = probe.item /\ probeOut.skip

\* The steps of an invocation from one state to the next: a call leaves the
\* rest state for FetchingReference (when it has to wait), for Transforming
\* (the table parsed and the items dispatched within the call) or for Failed;
\* the end of the fetch leads to Transforming or Failed; the items are
\* transformed one by one until Done or Failed.
StateOrder ==
    ({"Idle", "Done", "Failed"} \X {"FetchingReference", "Transforming", "Failed"})
    \cup ({"FetchingReference"} \X {"Transforming", "Failed"})
    \cup ({"Transforming"} \X {"Transforming", "Done", "Failed"})

\* C16: an invocation goes from FetchingReference through the dispatch to
\* Transforming and Done, in that order: pairs and outputs exist only once the
\* table is fetched and parsed, and an invocation that fails before it has a
\* table ends in Failed with nothing dispatched and no output.
C16_FetchBeforeDispatch ==
    [][ \A s \in SlotIds :
          /\ slots'[s] # slots[s] => <<slots[s].pc, slots'[s].pc>> \in StateOrder
          /\ (slots[s].pc \in Restartable /\ slots'[s] # slots[s])
                => (event'.op = "call" /\ event'.slot = s)
          /\ (slots'[s].parsed # <<>> \/ slots'[s].out # <<>>) => slots'[s].hasRates
          /\ slots'[s].pc \in {"Transforming", "Done"} => slots'[s].hasRates
          /\ (slots'[s].pc = "Failed" /\ ~slots'[s].hasRates)
                => (slots'[s].parsed = <<>> /\ slots'[s].out = <<>>) ]_vars

\* A suspendable invocation waited for the table, transformed its two items
\* and is done.
C16_Witness ==
    /\ slots["a1"].pc = "Done" /\ slots["a1"].cold
    /\ Len(slots["a1"].out) = 2
    /\ event.op = "consume" /\ event.slot = "a1"

\* C17: a suspendable invocation is suspended only in FetchingReference, and
\* one whose call started the fetch of the reference data stays there until
\* the result has come: it goes on to the dispatch and the transforms with
\* the table, and waits for nothing there.
C17_SuspendsOnlyAtFetch ==
    \A a \in AsyncIds :
        /\ (event.op = "call" /\ event.slot = a /\ event.fetched)
              => slots[a].pc = "FetchingReference"
        /\ slots[a].waits # "" => slots[a].pc = "FetchingReference"
        /\ slots[a].pc \in {"Transforming", "Done"} => slots[a].hasRates

\* The configured 'offline' flag is true: '1'; '0' (the documented default)
\* and no value are false.
FlagSet == conf.offline = "1"
OfflineKeys == {"get_offline_rate_data", "asyncGetOfflineRateData"}

\* C18: a stage invocation asks the snapshot function, and contacts no remote
\* service, exactly when the offline flag is true; with the flag false it
\* asks the remote function, whose fetch goes to the remote service first.
C18_OfflineFlagDecidesSource ==
    event.op = "call" =>
        /\ (event.key \in OfflineKeys) <=> FlagSet
        /\ FlagSet => event.io.remote = 0
        /\ (~FlagSet /\ event.slot = "sync" /\ event.fetched) => event.io.remote = 1

\* C19: one request for the reference data asks the remote service once at
\* most and reads the snapshot once at most; only the remote functions ask
\* the remote service, so a failed read of the snapshot is followed by no
\* remote attempt; a fetch that ended, failed or not, starts no other, and no
\* other step does any of this I/O.
C19_NoRetry ==
    [][ /\ event'.io.remote <= 1 /\ event'.io.snapshot <= 1
        /\ event'.io.remote = 1 => event'.key \in {"get_rate_data", "asyncGetRateData"}
        /\ event'.key \in OfflineKeys => event'.io.remote = 0
        /\ event'.op \notin {"call", "done"}
              => (event'.io.remote = 0 /\ event'.io.snapshot = 0 /\ inflight' = inflight)
        /\ (event'.op = "call" /\ event'.slot = "sync") => inflight' = inflight
        /\ (event'.op = "call" /\ event'.slot \in AsyncIds)
              => \A k \in AsyncKeys :
                    inflight'[k] = inflight[k] + (IF k = event'.key /\ event'.fetched THEN 1 ELSE 0)
        /\ event'.op = "done"
              => \A k \in AsyncKeys :
                    inflight'[k] = inflight[k] - (IF k = event'.key THEN 1 ELSE 0) ]_vars

\* The GET of a request raised and the read of the snapshot failed too: one
\* attempt of each was made and no fetch is in flight.
C19_Witness ==
    /\ event.op = "done" /\ event.saw = "raises" /\ ~snapshotOK
    /\ event.io.remote = 1 /\ event.io.snapshot = 1
    /\ \A k \in AsyncKeys : inflight[k] = 0
====
